---------------------------- MODULE Spec2Model ----------------------------
(***************************************************************************)
(* Model of c/anharmonic/phonoc_utils.c: the undone-point scheduler        *)
(* (set_phonons_at_gridpoints, collect_undone_grid_points,                 *)
(* get_undone_phonons) and the per-point solver get_phonons.               *)
(*                                                                         *)
(* Numbers.  A double is modelled as an extended rational <<n, d>>:        *)
(* d > 0 and gcd(n, d) = 1 for a finite value n/d, <<1, 0>> for +inf,      *)
(* <<-1, 0>> for -inf and <<0, 0>> for NaN.  +, *, / are exact on finite   *)
(* values and follow IEEE 754 on the others (x/0 = inf, 0/0 = NaN,         *)
(* inf*0 = NaN, ...).  sqrt is rounded down to a multiple of 1/SqrtPrec.   *)
(* Signed zeros are not distinguished.                                     *)
(*                                                                         *)
(* Crystal.  The physical tables describe one primitive atom in a          *)
(* supercell of one atom whose only shortest vector is the zero vector,    *)
(* so that the phase factor is exactly 1 + 0i; force constants, Born       *)
(* charges, dielectric tensor and reciprocal lattice are diagonal 3x3      *)
(* matrices and wavevectors lie along one axis, which keeps the dynamical  *)
(* matrix diagonal and its eigen-decomposition exactly computable.         *)
(*                                                                         *)
(* C arrays indexed 0..2 are tuples indexed 1..3.                          *)
(***************************************************************************)
EXTENDS Integers, Sequences, FiniteSets, TLC

\* ------------------------------------------------------------ bounds
\* number of grid points, frequencies->dims[0]
NumGP == 2
\* resolution of the modelled sqrt (results are multiples of 1/SqrtPrec)
SqrtPrec == 4
\* largest numerator of a wavevector / grid-address component
MaxAddr == 1

\* ------------------------------------------------------------ doubles
NaN == <<0, 0>>
PInf == <<1, 0>>
NInf == <<-1, 0>>

Abs(n) == IF n < 0 THEN -n ELSE n

Sign(n) == IF n > 0 THEN 1 ELSE IF n < 0 THEN -1 ELSE 0

RECURSIVE GCD(_, _)
GCD(a, b) == IF b = 0 THEN a ELSE GCD(b, a % b)

\* the finite value n/d, d > 0, in lowest terms
Norm(n, d) == LET g == GCD(Abs(n), d) IN <<n \div g, d \div g>>

\* the double with integer value n
R(n) == <<n, 1>>

IsNaN(x) == x = NaN
IsInf(x) == x[2] = 0 /\ x[1] # 0
IsFinite(x) == x[2] > 0

FAdd(x, y) ==
  IF IsNaN(x) \/ IsNaN(y) THEN NaN
  ELSE IF IsInf(x) /\ IsInf(y) THEN (IF x = y THEN x ELSE NaN)
  ELSE IF IsInf(x) THEN x
  ELSE IF IsInf(y) THEN y
  ELSE Norm(x[1] * y[2] + y[1] * x[2], x[2] * y[2])

FNeg(x) == <<-x[1], x[2]>>

FSub(x, y) == FAdd(x, FNeg(y))

FMul(x, y) ==
  IF IsNaN(x) \/ IsNaN(y) THEN NaN
  ELSE IF IsInf(x) \/ IsInf(y)
       THEN (IF x[1] = 0 \/ y[1] = 0 THEN NaN
             ELSE <<Sign(x[1]) * Sign(y[1]), 0>>)
  ELSE Norm(x[1] * y[1], x[2] * y[2])

FDiv(x, y) ==
  IF IsNaN(x) \/ IsNaN(y) THEN NaN
  ELSE IF IsInf(x)
       THEN (IF IsInf(y) THEN NaN
             ELSE <<Sign(x[1]) * (IF y[1] < 0 THEN -1 ELSE 1), 0>>)
  ELSE IF IsInf(y) THEN R(0)
  ELSE IF y[1] = 0
       THEN (IF x[1] = 0 THEN NaN ELSE <<Sign(x[1]), 0>>)
  ELSE Norm(x[1] * y[2] * Sign(y[1]), x[2] * Abs(y[1]))

\* x < y; every comparison with NaN is false
FLt(x, y) ==
  IF IsNaN(x) \/ IsNaN(y) THEN FALSE
  ELSE IF IsInf(x) /\ IsInf(y) THEN x[1] < y[1]
  ELSE x[1] * y[2] < y[1] * x[2]

FAbs(x) == <<Abs(x[1]), x[2]>>

\* floor of the square root of the natural number m
Isqrt(m) == CHOOSE k \in 0..m : k * k <= m /\ (k + 1) * (k + 1) > m

\* sqrt of a double x >= 0 (or NaN)
FSqrt(x) ==
  IF IsNaN(x) \/ x[1] < 0 THEN NaN
  ELSE IF IsInf(x) THEN PInf
  ELSE Norm(Isqrt((x[1] * SqrtPrec * SqrtPrec) \div x[2]), SqrtPrec)

\* 1e-10 = 1 / (TolRoot * TolRoot)
TolRoot == 100000

\* fabs(x) < 1e-10
BelowTol(x) ==
  /\ IsFinite(x)
  /\ \/ x[1] = 0
     \/ /\ Abs(x[1]) < 20000
        /\ (x[2] - 1) \div TolRoot >= Abs(x[1]) * TolRoot

\* ------------------------------------------------------------ vectors
Idx == 1..3

\* the 3-tuple <<F(1), F(2), F(3)>>
Tup3(F(_)) == <<F(1), F(2), F(3)>>

NULL == << >>

Zero3 == <<R(0), R(0), R(0)>>

ZeroMat == <<Zero3, Zero3, Zero3>>

\* sum over j of M[i][j] * v[j], accumulated from 0.0 in index order
MatVec(M, v) ==
  Tup3(LAMBDA i :
     FAdd(FAdd(FAdd(R(0), FMul(M[i][1], v[1])), FMul(M[i][2], v[2])),
          FMul(M[i][3], v[3])))

MatFinite(M) == \A i \in Idx : \A j \in Idx : IsFinite(M[i][j])

VecFinite(v) == \A i \in Idx : IsFinite(v[i])


\* ------------------------------------------------------------ crystal
\* multi->dims[1] primitive atoms, multi->dims[0] supercell atoms
PrimAtoms == {0}

SuperAtoms == {0}

num_patom == Cardinality(PrimAtoms)

num_satom == Cardinality(SuperAtoms)

\* ------------------------------------------------------------ get_phonons
\* fabs(q[0]) < 1e-10 && fabs(q[1]) < 1e-10 && fabs(q[2]) < 1e-10
IsZeroQ(q) == BelowTol(q[1]) /\ BelowTol(q[2]) /\ BelowTol(q[3])

\* the branch of get_phonons that leaves charge_sum NULL
NacSkipped(q, born, q_direction) ==
  \/ born = NULL
  \/ IsZeroQ(q) /\ q_direction = NULL

\* the fractional vector that is transformed into q_cart
NacVector(q, q_direction) == IF q_direction # NULL THEN q_direction ELSE q

\* the fractional vector the NAC term is built from, NULL when it is skipped
NacUsed(q, born, q_direction) ==
  IF NacSkipped(q, born, q_direction) THEN NULL
  ELSE NacVector(q, q_direction)

QCart(reciprocal_lattice, v) == MatVec(reciprocal_lattice, v)

\* q_cart^T * dielectric * q_cart, accumulated from 0.0
InvDielectricFactor(dielectric, q_cart) ==
  LET t == MatVec(dielectric, q_cart)
  IN FAdd(FAdd(FAdd(R(0), FMul(t[1], q_cart[1])), FMul(t[2], q_cart[2])),
          FMul(t[3], q_cart[3]))

\* nac_factor / inv_dielectric_factor / num_satom * num_patom
DielectricFactor(nac_factor, inv_dielectric_factor) ==
  FMul(FDiv(FDiv(nac_factor, inv_dielectric_factor), R(num_satom)),
       R(num_patom))

\* dynmat.c get_charge_sum for one primitive atom:
\* q_born[a] = sum_k q_cart[k] * born[k][a];
\* charge_sum[a][b] = q_born[a] * q_born[b] * factor
get_charge_sum(factor, q_cart, born) ==
  LET q_born == Tup3(LAMBDA a :
        FAdd(FAdd(FAdd(R(0), FMul(q_cart[1], born[1][a])),
                  FMul(q_cart[2], born[2][a])),
             FMul(q_cart[3], born[3][a])))
  IN Tup3(LAMBDA a : Tup3(LAMBDA b : FMul(FMul(q_born[a], q_born[b]), factor)))

\* charge_sum as get_phonons prepares it: NULL, or the NAC tensor
ChargeSum(p) ==
  IF NacSkipped(p.q, p.born, p.q_direction) THEN NULL
  ELSE LET q_cart == QCart(p.reciprocal_lattice, NacVector(p.q, p.q_direction))
           inv == InvDielectricFactor(p.dielectric, q_cart)
       IN get_charge_sum(DielectricFactor(p.nac_factor, inv), q_cart, p.born)

\* dynmat.c get_dynamical_matrix_at_q for one primitive atom whose shortest
\* vector is zero (cos_phase = 1, sin_phase = 0):
\* fc_elem = (fc + charge_sum) / mass_sqrt; dm_real += fc_elem * cos_phase;
\* dm_imag += fc_elem * sin_phase
get_dynamical_matrix_at_q(fc2, masses, charge_sum) ==
  LET mass_sqrt == FSqrt(FMul(masses, masses))
      fc_elem(l, m) ==
        IF charge_sum # NULL
        THEN FDiv(FAdd(fc2[l][m], charge_sum[l][m]), mass_sqrt)
        ELSE FDiv(fc2[l][m], mass_sqrt)
  IN [re |-> Tup3(LAMBDA l : Tup3(LAMBDA m :
                FAdd(R(0), FMul(fc_elem(l, m), R(1))))),
      im |-> Tup3(LAMBDA l : Tup3(LAMBDA m :
                FAdd(R(0), FMul(fc_elem(l, m), R(0)))))]

\* a[i][j] = ((dm_real[i][j] + dm_real[j][i]) / 2,
\*            (dm_imag[i][j] - dm_imag[j][i]) / 2)
Hermitize(dm) ==
  [re |-> Tup3(LAMBDA i : Tup3(LAMBDA j :
             FDiv(FAdd(dm.re[i][j], dm.re[j][i]), R(2)))),
   im |-> Tup3(LAMBDA i : Tup3(LAMBDA j :
             FDiv(FSub(dm.im[i][j], dm.im[j][i]), R(2))))]

\* the matrix get_phonons hands to phonopy_zheev
DynMat(p) ==
  Hermitize(get_dynamical_matrix_at_q(p.fc2, p.masses, ChargeSum(p)))

CFinite(a) == MatFinite(a.re) /\ MatFinite(a.im)

IsDiagonal(a) ==
  /\ \A i \in Idx : \A j \in Idx : a.im[i][j] = R(0)
  /\ \A i \in Idx : \A j \in Idx : i # j => a.re[i][j] = R(0)

\* position of diagonal entry i among the diagonal entries in ascending order
Rank(d, i) ==
  1 + Cardinality({j \in Idx : FLt(d[j], d[i]) \/ (d[j] = d[i] /\ j < i)})

\* what the eigensolver may do: converge (info = 0), or not (info > 0) and
\* leave the diagonal in w in the order perm
ZheevOutcomes ==
  {[info |-> 0, perm |-> <<1, 2, 3>>],
   [info |-> 1, perm |-> <<1, 2, 3>>],
   [info |-> 1, perm |-> <<3, 2, 1>>]}

\* lapack_wrapper.c phonopy_zheev, a black box: eigenvalues ascending in w,
\* eigenvectors in a, info = 0; or info > 0 when it does not converge.
\* Exact for a finite diagonal matrix; NaN throughout for a matrix holding
\* inf or NaN; "unsupported" otherwise (no input of the model gets there).
phonopy_zheev(a, out) ==
  LET d == Tup3(LAMBDA i : a.re[i][i])
  IN IF ~CFinite(a)
     THEN [w |-> <<NaN, NaN, NaN>>,
           a |-> [re |-> <<<<NaN, NaN, NaN>>, <<NaN, NaN, NaN>>, <<NaN, NaN, NaN>>>>,
                  im |-> <<<<NaN, NaN, NaN>>, <<NaN, NaN, NaN>>, <<NaN, NaN, NaN>>>>],
           info |-> out.info]
     ELSE IF ~IsDiagonal(a)
     THEN [w |-> <<NaN, NaN, NaN>>, a |-> a, info |-> -1000]
     ELSE IF out.info # 0
     THEN [w |-> Tup3(LAMBDA k : d[out.perm[k]]), a |-> a, info |-> out.info]
     ELSE [w |-> Tup3(LAMBDA k : d[CHOOSE i \in Idx : Rank(d, i) = k]),
           a |-> [re |-> Tup3(LAMBDA i : Tup3(LAMBDA k :
                            IF Rank(d, i) = k THEN R(1) ELSE R(0))),
                  im |-> ZeroMat],
           info |-> 0]

\* the conversion without the sign factor
FreqOfUnsigned(w, unit_conversion_factor) ==
  FMul(FSqrt(FAbs(w)), unit_conversion_factor)

\* sqrt(fabs(w)) * ((w > 0) - (w < 0)) * unit_conversion_factor
FreqOf(w, unit_conversion_factor) ==
  FMul(FMul(FSqrt(FAbs(w)),
            R((IF FLt(R(0), w) THEN 1 ELSE 0) - (IF FLt(w, R(0)) THEN 1 ELSE 0))),
       unit_conversion_factor)

FreqConv(w, unit_conversion_factor) ==
  Tup3(LAMBDA i : FreqOf(w[i], unit_conversion_factor))

\* get_phonons(a, w, q, ...): the values left in a and w and the value
\* returned, with the matrix diagonalized (dm), the eigenvalues the solver
\* left in w (eig) and the vector of the NAC term (nac) kept beside them
get_phonons(p, out) ==
  LET dm == DynMat(p)
      z == phonopy_zheev(dm, out)
  IN [a |-> z.a,
      w |-> FreqConv(z.w, p.unit_conversion_factor),
      info |-> z.info,
      dm |-> dm,
      eig |-> z.w,
      nac |-> NacUsed(p.q, p.born, p.q_direction)]


\* ------------------------------------------------------------ grid
\* grid-point indices 0 .. frequencies->dims[0] - 1
GP == 0..(NumGP - 1)

\* a NumGP x 1 x 1 mesh whose grid point gp has address (gp, 0, 0);
\* index 0 is the Gamma point
mesh == <<NumGP, 1, 1>>

grid_address(gp) == <<gp, 0, 0>>

\* q[j] = ((double)grid_address[gp * 3 + j]) / mesh[j]
GridQ(gp) == Tup3(LAMBDA j : FDiv(R(grid_address(gp)[j]), R(mesh[j])))

\* q_direction is handed on for every grid point
PassedDirectionAlways(gp, q_direction) == q_direction

\* the q_direction argument of the loop body: q_direction for gp == 0, else NULL
PassedDirection(gp, q_direction) == IF gp = 0 THEN q_direction ELSE NULL

\* the arguments get_undone_phonons gives get_phonons for grid point gp
GridArgs(gp, p) ==
  [p EXCEPT !.q = GridQ(gp),
            !.q_direction = PassedDirection(gp, p.q_direction)]

\* ------------------------------------------------------------ inputs
Diag(x, y, z) ==
  <<<<R(x), R(0), R(0)>>, <<R(0), R(y), R(0)>>, <<R(0), R(0), R(z)>>>>

AxisVec(k, x) == Tup3(LAMBDA j : IF j = k THEN x ELSE R(0))

Fracs == {Norm(n, m) : n \in 1..MaxAddr, m \in 1..2}

QSet == {Zero3} \cup {AxisVec(k, x) : k \in Idx, x \in Fracs}

DirSet == {NULL} \cup {AxisVec(k, R(1)) : k \in Idx}

FcSet == {Diag(1, 4, 9), Diag(9, -4, 0), Diag(-1, -1, 4)}

BornSet == {NULL, Diag(1, 1, 1)}

DielSet == {Diag(1, 1, 1), Diag(0, 1, 2)}

\* every argument list of a direct get_phonons call
PhysInputs ==
  [q : QSet, fc2 : FcSet, masses : {R(1)}, born : BornSet,
   dielectric : DielSet, reciprocal_lattice : {Diag(1, 1, 1)},
   q_direction : DirSet, nac_factor : {R(1), R(2)},
   unit_conversion_factor : {R(1), R(2)}]

\* the argument lists of set_phonons_at_gridpoints (q is filled in per point)
CallInputs ==
  {p \in PhysInputs :
     /\ p.q = Zero3
     /\ p.nac_factor = R(1)
     /\ \/ p.born = NULL /\ p.q_direction = NULL /\ p.fc2 = Diag(1, 4, 9)
           /\ p.dielectric = Diag(1, 1, 1) /\ p.unit_conversion_factor = R(1)
        \/ p.born # NULL /\ p.q_direction = AxisVec(1, R(1))
           /\ p.fc2 = Diag(9, -4, 0)
           /\ p.dielectric = Diag(1, 1, 1) /\ p.unit_conversion_factor = R(2)}

\* request lists: grid-point indices, repeats allowed, up to NumGP + 1 long
RECURSIVE SeqsUpTo(_, _)
SeqsUpTo(S, n) ==
  IF n = 0 THEN {<< >>}
  ELSE LET shorter == SeqsUpTo(S, n - 1)
       IN shorter \cup {Append(t, x) : t \in shorter, x \in S}

Requests == SeqsUpTo(GP, NumGP + 1)

\* ------------------------------------------------------------ state
VARIABLES
  phonon_done,   \* char *phonon_done: the flag of each grid point
  frequencies,   \* frequencies->data: w of each grid point
  eigenvectors,  \* eigenvectors->data: a of each grid point
  pc,            \* "idle", "collect", "parallel", "joined"
  grid_points,   \* the requested list of the call in progress
  inp,           \* its physical arguments
  ci,            \* collect_undone_grid_points: i
  undone,        \* the malloc'ed buffer of NumGP ints (-1: never written)
  num_undone,    \* collect_undone_grid_points: num_undone
  oob,           \* a write past the end of undone has happened
  wpc,           \* per loop iteration of get_undone_phonons, its position
  winfo,         \* per loop iteration, info as phonopy_zheev returned it
  entry,         \* the cache as it was when the call was entered
  writers,       \* per grid point, the iterations that wrote its slot
  solves,        \* per grid point, the get_phonons calls of this batch
  info,          \* per grid point, what its last get_phonons returned
  args,          \* a direct call: its kind, grid point and arguments
  res            \* a direct call: its result, or NULL

vars ==
  <<phonon_done, frequencies, eigenvectors, pc, grid_points, inp, ci, undone,
    num_undone, oob, wpc, winfo, entry, writers, solves, info, args, res>>

sched_vars ==
  <<phonon_done, frequencies, eigenvectors, pc, grid_points, inp, ci, undone,
    num_undone, oob, wpc, winfo, entry, writers, solves, info>>

\* a buffer one int short of the number of grid points
AllocSizeShort == NumGP - 1

\* the number of ints undone is malloc'ed for: frequencies->dims[0]
AllocSize == NumGP

\* a slot the caller allocated and nobody has written
Unset == << >>

NoArgs == [kind |-> "none", gp |-> 0, p |-> NULL]

SchedInit ==
  /\ phonon_done = [gp \in GP |-> 0]
  /\ frequencies = [gp \in GP |-> Unset]
  /\ eigenvectors = [gp \in GP |-> Unset]
  /\ pc = "idle"
  /\ grid_points = << >>
  /\ inp = NULL
  /\ ci = 0
  /\ undone = [k \in 1..AllocSize |-> -1]
  /\ num_undone = 0
  /\ oob = FALSE
  /\ wpc = [k \in 1..NumGP |-> "none"]
  /\ winfo = [k \in 1..NumGP |-> 0]
  /\ entry = [done |-> phonon_done, w |-> frequencies, a |-> eigenvectors]
  /\ writers = [gp \in GP |-> {}]
  /\ solves = [gp \in GP |-> 0]
  /\ info = [gp \in GP |-> -1]

\* ------------------------------------------------------------ direct calls
\* one iteration of the loop of get_undone_phonons, for grid point gp
UndonePhonon(gp, p, out) == get_phonons(GridArgs(gp, p), out)

PhononInit ==
  /\ SchedInit
  /\ res = NULL
  /\ \/ \E p \in PhysInputs : args = [kind |-> "direct", gp |-> 0, p |-> p]
     \/ \E p \in PhysInputs : \E gp \in GP :
          /\ p.q = Zero3
          /\ args = [kind |-> "grid", gp |-> gp, p |-> p]

\* a caller calls get_phonons with arbitrary arguments
DirectCall ==
  /\ args.kind = "direct"
  /\ res = NULL
  /\ \E out \in ZheevOutcomes : res' = get_phonons(args.p, out)
  /\ UNCHANGED <<sched_vars, args>>

\* get_undone_phonons runs its loop body for one grid point
GridCall ==
  /\ args.kind = "grid"
  /\ res = NULL
  /\ \E out \in ZheevOutcomes : res' = UndonePhonon(args.gp, args.p, out)
  /\ UNCHANGED <<sched_vars, args>>

PhononNext == DirectCall \/ GridCall

SpecPhonon == PhononInit /\ [][PhononNext]_vars


\* ------------------------------------------------------------ scheduler
\* every requested point is collected, whatever its flag
IsUndoneAlways(done, gp) == TRUE

\* if (phonon_done[gp] == 0)
IsUndone(done, gp) == done[gp] = 0

\* the flag is left as it was
MarkDoneNever(done, gp) == done

\* phonon_done[gp] = 1
MarkDone(done, gp) == [done EXCEPT ![gp] = 1]

\* set_phonons_at_gridpoints is entered: undone is malloc'ed with room for
\* frequencies->dims[0] ints and collect_undone_grid_points starts
Call(gps, p) ==
  /\ pc = "idle"
  /\ pc' = "collect"
  /\ grid_points' = gps
  /\ inp' = p
  /\ ci' = 0
  /\ undone' = [k \in 1..AllocSize |-> -1]
  /\ num_undone' = 0
  /\ wpc' = [k \in 1..NumGP |-> "none"]
  /\ winfo' = [k \in 1..NumGP |-> 0]
  /\ entry' = [done |-> phonon_done, w |-> frequencies, a |-> eigenvectors]
  /\ writers' = [gp \in GP |-> {}]
  /\ solves' = [gp \in GP |-> 0]
  /\ UNCHANGED <<phonon_done, frequencies, eigenvectors, oob, info, args, res>>

\* one iteration of the loop of collect_undone_grid_points
collect_undone_grid_points ==
  /\ pc = "collect"
  /\ ci < Len(grid_points)
  /\ LET gp == grid_points[ci + 1]
     IN IF IsUndone(phonon_done, gp)
        THEN /\ IF num_undone < AllocSize
                THEN undone' = [undone EXCEPT ![num_undone + 1] = gp]
                        /\ oob' = oob
                ELSE undone' = undone /\ oob' = TRUE
             /\ num_undone' = num_undone + 1
             /\ phonon_done' = MarkDone(phonon_done, gp)
        ELSE UNCHANGED <<undone, oob, num_undone, phonon_done>>
  /\ ci' = ci + 1
  /\ UNCHANGED <<frequencies, eigenvectors, pc, grid_points, inp, wpc, winfo,
                 entry, writers, solves, info, args, res>>

\* the iterations of the parallel loop: 0 .. num_undone - 1, as 1 .. num_undone
Workers == {k \in 1..AllocSize : k <= num_undone}

\* collect_undone_grid_points returns and get_undone_phonons opens the
\* parallel loop
get_undone_phonons ==
  /\ pc = "collect"
  /\ ci = Len(grid_points)
  /\ pc' = "parallel"
  /\ wpc' = [k \in 1..NumGP |-> IF k \in Workers THEN "start" ELSE "none"]
  /\ UNCHANGED <<phonon_done, frequencies, eigenvectors, grid_points, inp, ci,
                 undone, num_undone, oob, winfo, entry, writers, solves, info,
                 args, res>>

\* every iteration takes the first entry of the undone list
WorkerGPFirst(k) == undone[1]

\* gp = undone_grid_points[i] of iteration k
WorkerGP(k) == undone[k]

\* iteration k enters get_phonons for gp = undone[k]: the dynamical matrix is
\* built in private buffers and written, Hermitized, into a
WorkerHermitize(k) ==
  /\ pc = "parallel"
  /\ wpc[k] = "start"
  /\ LET gp == WorkerGP(k)
     IN /\ eigenvectors' = [eigenvectors EXCEPT ![gp] = DynMat(GridArgs(gp, inp))]
        /\ writers' = [writers EXCEPT ![gp] = @ \cup {k}]
        /\ solves' = [solves EXCEPT ![gp] = @ + 1]
  /\ wpc' = [wpc EXCEPT ![k] = "herm"]
  /\ UNCHANGED <<phonon_done, frequencies, pc, grid_points, inp, ci, undone,
                 num_undone, oob, winfo, entry, info, args, res>>

\* the eigensolver's outcomes within a batch: converge, or fail and leave the
\* diagonal in w as it stood
BatchOutcomes == {out \in ZheevOutcomes : out.perm = <<1, 2, 3>>}

\* iteration k: info = phonopy_zheev(w, a, num_patom * 3, uplo)
WorkerZheev(k) ==
  /\ pc = "parallel"
  /\ wpc[k] = "herm"
  /\ \E out \in BatchOutcomes :
       LET gp == WorkerGP(k)
           z == phonopy_zheev(eigenvectors[gp], out)
       IN /\ frequencies' = [frequencies EXCEPT ![gp] = z.w]
          /\ eigenvectors' = [eigenvectors EXCEPT ![gp] = z.a]
          /\ winfo' = [winfo EXCEPT ![k] = z.info]
          /\ writers' = [writers EXCEPT ![gp] = @ \cup {k}]
  /\ wpc' = [wpc EXCEPT ![k] = "diag"]
  /\ UNCHANGED <<phonon_done, pc, grid_points, inp, ci, undone, num_undone,
                 oob, entry, solves, info, args, res>>

\* iteration k: w is converted in place and get_phonons returns info, which
\* the loop body does not keep
WorkerConvert(k) ==
  /\ pc = "parallel"
  /\ wpc[k] = "diag"
  /\ LET gp == WorkerGP(k)
     IN /\ frequencies' = [frequencies EXCEPT ![gp] =
                             FreqConv(@, inp.unit_conversion_factor)]
        /\ info' = [info EXCEPT ![gp] = winfo[k]]
        /\ writers' = [writers EXCEPT ![gp] = @ \cup {k}]
  /\ wpc' = [wpc EXCEPT ![k] = "done"]
  /\ UNCHANGED <<phonon_done, eigenvectors, pc, grid_points, inp, ci, undone,
                 num_undone, oob, winfo, entry, solves, args, res>>

Worker(k) == WorkerHermitize(k) \/ WorkerZheev(k) \/ WorkerConvert(k)

\* every iteration has finished: the parallel loop joins and
\* get_undone_phonons returns (void)
Join ==
  /\ pc = "parallel"
  /\ \A k \in Workers : wpc[k] = "done"
  /\ pc' = "joined"
  /\ UNCHANGED <<phonon_done, frequencies, eigenvectors, grid_points, inp, ci,
                 undone, num_undone, oob, wpc, winfo, entry, writers, solves,
                 info, args, res>>

\* free(undone) and set_phonons_at_gridpoints returns (void): the locals of
\* the call are gone, the caller holds the cache
Return ==
  /\ pc = "joined"
  /\ pc' = "idle"
  /\ grid_points' = << >>
  /\ inp' = NULL
  /\ ci' = 0
  /\ undone' = [k \in 1..AllocSize |-> -1]
  /\ num_undone' = 0
  /\ wpc' = [k \in 1..NumGP |-> "none"]
  /\ winfo' = [k \in 1..NumGP |-> 0]
  /\ entry' = [done |-> phonon_done, w |-> frequencies, a |-> eigenvectors]
  /\ writers' = [gp \in GP |-> {}]
  /\ solves' = [gp \in GP |-> 0]
  /\ UNCHANGED <<phonon_done, frequencies, eigenvectors, oob, info, args, res>>

set_phonons_at_gridpoints ==
  \E gps \in Requests : \E p \in CallInputs : Call(gps, p)

Init == SchedInit /\ args = NoArgs /\ res = NULL

Next ==
  \/ set_phonons_at_gridpoints
  \/ collect_undone_grid_points
  \/ get_undone_phonons
  \/ \E k \in Workers : Worker(k)
  \/ Join
  \/ Return

Spec == Init /\ [][Next]_vars


\* ------------------------------------------------------------ properties
\* the undone list as collected so far
UndoneList == [k \in Workers |-> undone[k]]

UndoneSet == {undone[k] : k \in Workers}

\* the requested points of gps whose flag in done is 0, each once, in the
\* order of their first occurrence
RECURSIVE FirstUndone(_, _)
FirstUndone(gps, done) ==
  IF gps = << >> THEN << >>
  ELSE LET front == FirstUndone(SubSeq(gps, 1, Len(gps) - 1), done)
           gp == gps[Len(gps)]
       IN IF done[gp] = 0 /\ \A k \in 1..Len(front) : front[k] # gp
          THEN Append(front, gp)
          ELSE front

\* C1: every requested grid point has its flag set when the batch call has
\* run, and a grid point whose flag was set when a call was entered keeps
\* its frequencies and eigenvectors throughout that call, whatever the
\* call's arguments are.
C1_CachingLaw ==
  /\ pc = "joined" =>
       \A k \in 1..Len(grid_points) : phonon_done[grid_points[k]] = 1
  /\ \A gp \in GP :
       entry.done[gp] = 1 =>
         /\ frequencies[gp] = entry.w[gp]
         /\ eigenvectors[gp] = entry.a[gp]
         /\ phonon_done[gp] = 1

\* a call has run that requested a point solved earlier, with arguments under
\* which that point's frequencies would have come out differently
C1_Witness ==
  /\ pc = "joined"
  /\ num_undone > 0
  /\ \E k \in 1..Len(grid_points) :
       LET gp == grid_points[k]
       IN /\ entry.done[gp] = 1
          /\ info[gp] = 0
          /\ \A out \in BatchOutcomes :
               frequencies[gp] # UndonePhonon(gp, inp, out).w

\* C2: the undone list holds exactly the requested points whose flag was 0
\* on entry, each once, in the order of their first occurrence (after every
\* prefix of the collection loop), and get_phonons is called at most once
\* per grid point in one batch.
C2_Deduplication ==
  /\ pc # "idle" =>
       /\ num_undone <= AllocSize
       /\ UndoneList = FirstUndone(SubSeq(grid_points, 1, ci), entry.done)
  /\ \A j \in Workers : \A k \in Workers : j # k => undone[j] # undone[k]
  /\ \A gp \in GP : solves[gp] <= 1
  /\ pc = "joined" => \A gp \in GP : solves[gp] = (IF gp \in UndoneSet THEN 1 ELSE 0)

\* the request <<0, 0, 1>> on an empty cache: one solve for 0, one for 1
C2_Witness ==
  /\ pc = "joined"
  /\ grid_points = <<0, 0, 1>>
  /\ entry.done[0] = 0 /\ entry.done[1] = 0
  /\ solves[0] = 1 /\ solves[1] = 1
  /\ num_undone = Cardinality(UndoneSet)

\* C3: while the parallel loop runs, the collection loop is over and every
\* point of the undone list has its flag set; the flags do not change
\* between the start of the loop and its join.
C3_MarkBeforeDispatch ==
  /\ [](pc = "parallel" =>
          /\ ci = Len(grid_points)
          /\ \A k \in Workers : phonon_done[undone[k]] = 1)
  /\ [][pc = "parallel" => phonon_done' = phonon_done]_vars

\* one iteration is inside get_phonons while another has not started
C3_Witness ==
  /\ pc = "parallel"
  /\ num_undone >= 2
  /\ wpc[1] = "herm"
  /\ wpc[2] = "start"

\* C4: in one batch every slot is written by at most one loop iteration, the
\* one whose grid point it is; after the join every undone point has been
\* written by exactly its iteration; and the slots of points outside the
\* undone list are as they were on entry.
C4_DisjointWrites ==
  \A gp \in GP :
    /\ Cardinality(writers[gp]) <= 1
    /\ \A k \in writers[gp] : k \in Workers /\ undone[k] = gp
    /\ gp \notin UndoneSet =>
         /\ writers[gp] = {}
         /\ frequencies[gp] = entry.w[gp]
         /\ eigenvectors[gp] = entry.a[gp]
    /\ pc = "joined" =>
         \A k \in Workers : undone[k] = gp => writers[gp] = {k}

\* two iterations are inside get_phonons at once, each having written its slot
C4_Witness ==
  /\ pc = "parallel"
  /\ wpc[1] = "diag"
  /\ wpc[2] = "herm"
  /\ writers[undone[1]] = {1}
  /\ writers[undone[2]] = {2}

\* what the batch call hands its caller about failed points:
\* set_phonons_at_gridpoints and get_undone_phonons return void and the loop
\* body drops the value get_phonons returns
ReportedFailures == {}

\* C5: when the eigensolver does not converge for a point of the batch, the
\* other undone points are still solved and the caller is told which point
\* failed.
C5_FailureSurfaced ==
  pc = "joined" =>
    /\ \A k \in Workers : solves[undone[k]] = 1 /\ wpc[k] = "done"
    /\ \A k \in Workers : info[undone[k]] # 0 => undone[k] \in ReportedFailures

\* C6: when no call is in progress, a set flag means the slot holds the result
\* of a completed solve that succeeded.
C6_DoneMeansValid ==
  pc = "idle" => \A gp \in GP : phonon_done[gp] = 1 => info[gp] = 0

\* C10: after every prefix of the collection loop num_undone is at most the
\* number of distinct grid points seen so far, hence at most the size of the
\* buffer, and no write to undone is out of bounds.
C10_UndoneBound ==
  /\ ~oob
  /\ num_undone <= Cardinality({grid_points[j] : j \in 1..ci})
  /\ num_undone <= AllocSize
  /\ Len(undone) = AllocSize

\* a request longer than the buffer, with repeats, has filled the buffer
C10_Witness ==
  /\ pc = "collect"
  /\ ci = Len(grid_points)
  /\ Len(grid_points) > AllocSize
  /\ num_undone = AllocSize


\* the arguments get_phonons received in the direct call
Passed == IF args.kind = "grid" THEN GridArgs(args.gp, args.p) ELSE args.p

\* the wavevector q of the direct call
CallQ == Passed.q

\* the NAC term applies and q_cart^T * dielectric * q_cart is zero
DegenerateNac(p) ==
  /\ ~NacSkipped(p.q, p.born, p.q_direction)
  /\ InvDielectricFactor(p.dielectric,
                         QCart(p.reciprocal_lattice,
                               NacVector(p.q, p.q_direction))) = R(0)

\* C7: when the NAC term applies and inv_dielectric_factor is zero,
\* get_phonons ends with an error outcome and no inf or NaN reaches the
\* dynamical matrix, the frequencies or the eigenvectors.
C7_DegenerateNacFails ==
  (res # NULL /\ DegenerateNac(Passed)) =>
    /\ res.info # 0
    /\ CFinite(res.dm)
    /\ VecFinite(res.w)
    /\ CFinite(res.a)

Ascending(w) == ~FLt(w[2], w[1]) /\ ~FLt(w[3], w[2])

\* C9: every real eigenvalue e the eigensolver leaves in w is stored as
\* sign(e) * sqrt(|e|) * unit_conversion_factor (negative for e < 0, zero for
\* e = 0, positive for e > 0; |f| / factor squares to |e| within the
\* resolution of sqrt), and when the eigenvalues are ascending so are the
\* frequencies; eigenvalues 1, 4, 9 with factor 1 give 1, 2, 3.
C9_SignedFrequencies ==
  res # NULL =>
    LET u == args.p.unit_conversion_factor
    IN /\ \A k \in Idx :
            LET e == res.eig[k]
                f == res.w[k]
                m == FDiv(FAbs(f), u)
                m1 == FAdd(m, Norm(1, SqrtPrec))
            IN IsFinite(e) =>
                 /\ IsFinite(f)
                 /\ FLt(e, R(0)) <=> FLt(f, R(0))
                 /\ FLt(R(0), e) <=> FLt(R(0), f)
                 /\ e = R(0) <=> f = R(0)
                 /\ ~FLt(FAbs(e), FMul(m, m))
                 /\ FLt(FAbs(e), FMul(m1, m1))
       /\ (VecFinite(res.eig) /\ Ascending(res.eig)) => Ascending(res.w)
       /\ (res.eig = <<R(1), R(4), R(9)>> /\ u = R(1)) =>
            res.w = <<R(1), R(2), R(3)>>

\* the solver converged on a matrix with a negative, a zero and a positive
\* eigenvalue and a factor other than 1
C9_Witness ==
  /\ res # NULL
  /\ res.info = 0
  /\ args.p.unit_conversion_factor = R(2)
  /\ FLt(res.eig[1], R(0))
  /\ res.eig[2] = R(0)
  /\ FLt(R(0), res.eig[3])
  /\ FLt(res.w[1], R(0))
  /\ FLt(R(0), res.w[3])

=============================================================================
